---- MODULE Spec2Model ----
(***************************************************************************)
(* A model of the BayesianNet class (src/bayesian.py) on top of the        *)
(* DirectedGraph class (src/graph.py).                                     *)
(*                                                                         *)
(* Numbers.  A numpy array of floats is modelled as a tensor of exact      *)
(* rationals with one denominator: [shape, val, den] stands for the array  *)
(* whose entry at index i is val[i] / den.  den = 0 stands for an array of *)
(* nan: tables have entries >= 0, so a division by a zero sum is always    *)
(* 0/0 (a sum of non-negative entries is 0 only if all are 0).  A scalar   *)
(* is a pair <<n, d>> standing for n / d.  Indices are 1-based here where  *)
(* Python's are 0-based.                                                   *)
(*                                                                         *)
(* Source layout.  src/bayesian.py indents the docstring of getInference   *)
(* (lines 190-195) with tabs while the statements around it use spaces, so *)
(* CPython 3 refuses to compile the file (TabError at line 190).  The      *)
(* model takes the class as its statements read, with that docstring       *)
(* indented like the method body.                                          *)
(***************************************************************************)
EXTENDS Integers, Sequences, FiniteSets, TLC

VARIABLES vertexes, neighbors, edges, probability, states, dependencyList,
          evidenceList, call, ret, before

vars == <<vertexes, neighbors, edges, probability, states, dependencyList,
          evidenceList, call, ret, before>>

----------------------------------------------------------------------------
(* Tensors.                                                                *)

RECURSIVE GCD(_, _)
GCD(a, b) == IF b = 0 THEN a ELSE GCD(b, a % b)

\* the function f, evaluated at every argument once
Eager(f) == f @@ <<>>

SeqMax(s) == IF s = <<>> THEN 0 ELSE CHOOSE m \in {s[k] : k \in DOMAIN s} :
                                        \A k \in DOMAIN s : s[k] <= m

\* the indices of an array of a shape
Idx(shape) == {i \in [1..Len(shape) -> 1..SeqMax(shape)] :
                 \A k \in 1..Len(shape) : i[k] <= shape[k]}

\* the tensor slot of a result that carries no tensor
NoTensor == [shape |-> <<>>, val |-> <<>>, den |-> 1]

RECURSIVE SumOver(_, _)
SumOver(f, S) == IF S = {} THEN 0
                 ELSE LET x == CHOOSE y \in S : TRUE
                      IN f[x] + SumOver(f, S \ {x})

RECURSIVE GcdOver(_, _, _)
GcdOver(f, S, acc) == IF S = {} THEN acc
                      ELSE LET x == CHOOSE y \in S : TRUE
                           IN GcdOver(f, S \ {x}, GCD(f[x], acc))

ScaleDown(t, g) == IF g <= 1 THEN t
                   ELSE [shape |-> t.shape,
                         val |-> Eager([i \in DOMAIN t.val |-> t.val[i] \div g]),
                         den |-> t.den \div g]

\* the same array, in lowest terms
Canon(t) == ScaleDown(t, GcdOver(t.val, DOMAIN t.val, t.den))

\* np.sum( t ), a scalar
npSum(t) == <<SumOver(t.val, DOMAIN t.val), t.den>>

\* t / r, elementwise, for a scalar r: (val / den) / (n / d) = val * d / (den * n)
npDiv(t, r) == Canon([shape |-> t.shape,
                      val |-> Eager([i \in DOMAIN t.val |-> t.val[i] * r[2]]),
                      den |-> t.den * r[1]])

\* t / np.sum( t )
Normalized(t) == npDiv(t, npSum(t))

\* the increasing sequence of the members of a set of integers
SortedSeq(P) == [i \in 1..Cardinality(P) |->
                   CHOOSE k \in P : Cardinality({m \in P : m < k}) = i - 1]

\* slice( None ) in an index tuple; an integer index is >= 1 here
Slice == 0

npIndexKept(t, dimList, kept) ==
    [shape |-> [j \in 1..Len(kept) |-> t.shape[kept[j]]],
     val |-> Eager([j \in Idx([j \in 1..Len(kept) |-> t.shape[kept[j]]]) |->
                      t.val[[k \in 1..Len(dimList) |->
                               IF dimList[k] = Slice
                               THEN j[CHOOSE m \in 1..Len(kept) : kept[m] = k]
                               ELSE dimList[k]]]]),
     den |-> t.den]

\* t[ tuple( dimList ) ]: axes indexed by an integer are dropped
npIndex(t, dimList) ==
    npIndexKept(t, dimList, Eager(SortedSeq({k \in 1..Len(dimList) : dimList[k] = Slice})))

RECURSIVE Product(_, _, _)
\* the product over the operands of their entry under the label assignment f;
\* an axis of extent 1 is broadcast
Product(ops, lhs, f) ==
    IF ops = <<>> THEN 1
    ELSE Head(ops).val[[k \in 1..Len(Head(lhs)) |->
                          IF Head(ops).shape[k] = 1 THEN 1 ELSE f[Head(lhs)[k]]]]
         * Product(Tail(ops), Tail(lhs), f)

RECURSIVE DenProduct(_)
DenProduct(ops) == IF ops = <<>> THEN 1 ELSE Head(ops).den * DenProduct(Tail(ops))

\* the extent of a label: the largest extent of an axis carrying it
LabelDim(ops, lhs, c) ==
    SeqMax(<<1>> \o [i \in 1..Len(ops) |->
                       SeqMax(<<1>> \o [k \in 1..Len(lhs[i]) |->
                                          IF lhs[i][k] = c THEN ops[i].shape[k] ELSE 1])])

\* the subscripts and operands np.einsum rejects
einsumRejects(lhs, rhs, ops, labels) ==
    \/ ops = <<>>
    \/ \E i \in 1..Len(ops) : Len(ops[i].shape) # Len(lhs[i])
    \/ \E k \in 1..Len(rhs) : rhs[k] \notin labels
    \/ \E k, m \in 1..Len(rhs) : k # m /\ rhs[k] = rhs[m]
    \/ \E i \in 1..Len(ops) : \E k \in 1..Len(lhs[i]) :
          ops[i].shape[k] \notin {1, LabelDim(ops, lhs, lhs[i][k])}

\* the label assignment that extends the output index j by h
Assignment(labels, rhs, j, h) ==
    [c \in labels |-> IF c \in DOMAIN h THEN h[c]
                      ELSE j[CHOOSE k \in 1..Len(rhs) : rhs[k] = c]]

RECURSIVE SumProducts(_, _, _, _, _, _)
SumProducts(ops, lhs, labels, rhs, j, H) ==
    IF H = {} THEN 0
    ELSE LET h == CHOOSE x \in H : TRUE
         IN Product(ops, lhs, Assignment(labels, rhs, j, h))
            + SumProducts(ops, lhs, labels, rhs, j, H \ {h})

\* the contraction: the output entry at j sums, over the assignments H to the
\* labels that are not in the output, the product of the operands' entries
contract(lhs, rhs, ops, labels, shp, H) ==
    [shape |-> shp,
     val |-> Eager([j \in Idx(shp) |-> SumProducts(ops, lhs, labels, rhs, j, H)]),
     den |-> DenProduct(ops)]

\* the assignments to the labels of S, each within its extent
Assignments(lhs, ops, S) ==
    {h \in [S -> 1..SeqMax(<<1>> \o [i \in 1..Len(ops) |-> SeqMax(ops[i].shape)])] :
       \A c \in S : h[c] <= LabelDim(ops, lhs, c)}

einsumLabelled(lhs, rhs, ops, labels) ==
    IF einsumRejects(lhs, rhs, ops, labels)
    THEN [err |-> "ValueError", t |-> NoTensor]
    ELSE [err |-> "",
          t |-> contract(lhs, rhs, ops, labels,
                         [k \in 1..Len(rhs) |-> LabelDim(ops, lhs, rhs[k])],
                         Assignments(lhs, ops, labels \ {rhs[k] : k \in 1..Len(rhs)}))]

\* np.einsum( 'lhs1,lhs2,...->rhs', *ops ): [err |-> exception or "", t |-> tensor]
einsum(lhs, rhs, ops) ==
    einsumLabelled(lhs, rhs, ops,
                   UNION {{lhs[i][k] : k \in 1..Len(lhs[i])} : i \in 1..Len(lhs)})

\* whether two arrays hold the same values (nan taken as equal to nan)
SameValues(a, b) ==
    /\ a.shape = b.shape
    /\ (a.den = 0) = (b.den = 0)
    /\ \A i \in DOMAIN a.val : a.val[i] * b.den = b.val[i] * a.den

----------------------------------------------------------------------------
(* What a call gives back: a return value or a raised exception.           *)

Raise(e) == [kind |-> "raise", exc |-> e, label |-> "", printed |-> "", tensor |-> NoTensor]

ReturnNone == [kind |-> "none", exc |-> "", label |-> "", printed |-> "", tensor |-> NoTensor]

ReturnTensor(t) == [kind |-> "tensor", exc |-> "", label |-> "", printed |-> "", tensor |-> t]

ReturnLabel(s) == [kind |-> "label", exc |-> "", label |-> s, printed |-> "", tensor |-> NoTensor]

\* setEvidence's quiet return after print( "Invalid node specified" )
ReturnPrinted(m) == [kind |-> "none", exc |-> "", label |-> "", printed |-> m, tensor |-> NoTensor]

\* the result of a call that returns what np.einsum returns
ReturnOf(es) == IF es.err # "" THEN Raise(es.err) ELSE ReturnTensor(es.t)

\* the vertexList argument of jointProbability: None or a list of vertices
NoneArg == [none |-> TRUE, list |-> <<>>]

ListArg(l) == [none |-> FALSE, list |-> l]

----------------------------------------------------------------------------------------------------------------------------------------
(* DirectedGraph.  The object is a record self: self.vertexes is the key   *)
(* order of the dict _vertexes, self.neighbors[ v ] is _Vertex.neighbors,  *)
(* self.edges is the key set of the dict _edges.  The attributes that      *)
(* addProbabilityTable puts on a _Vertex are the functions                 *)
(* self.probability, self.states and self.dependencyList, whose common     *)
(* domain is the set of vertices that have them.                           *)

self == [vertexes |-> vertexes, neighbors |-> neighbors, edges |-> edges,
         probability |-> probability, states |-> states,
         dependencyList |-> dependencyList, evidenceList |-> evidenceList]

\* BayesianNet( ): no vertices, no edges, evidenceList = [ ]
EmptyNet == [vertexes |-> <<>>, neighbors |-> <<>>, edges |-> {},
             probability |-> <<>>, states |-> <<>>,
             dependencyList |-> <<>>, evidenceList |-> <<>>]

names(g) == {g.vertexes[i] : i \in DOMAIN g.vertexes}

\* the names whose _Vertex has the attributes probability, states, dependencyList
tabled(g) == DOMAIN g.probability

\* list.index( x ), 1-based; 0 where Python raises ValueError
IndexOf(seq, x) == IF \E i \in DOMAIN seq : seq[i] = x
                   THEN CHOOSE i \in DOMAIN seq : seq[i] = x /\ \A j \in 1..(i - 1) : seq[j] # x
                   ELSE 0

\* chr( i + 97 ) for i = 0, 1, ...
chr97 == <<"a", "b", "c", "d", "e", "f", "g", "h">>

\* indexDict = { v.name: chr( i + 97 ) for i, v in enumerate( self.vertexes( ) ) }
indexDict(g) == [n \in names(g) |-> chr97[IndexOf(g.vertexes, n)]]

addVertex(g, name) ==
    IF name \in names(g) THEN g
    ELSE [g EXCEPT !.vertexes = Append(g.vertexes, name),
                   !.neighbors = [n \in names(g) \cup {name} |->
                                    IF n = name THEN {} ELSE g.neighbors[n]]]

addEdge(g, pName, cName) ==
    IF <<pName, cName>> \in g.edges THEN g
    ELSE LET g2 == addVertex(addVertex(g, pName), cName)
         IN [g2 EXCEPT !.neighbors[pName] = g2.neighbors[pName] \cup {cName},
                       !.edges = g2.edges \cup {<<pName, cName>>}]

\* BayesianNet.addNode
addNode(g, nName) == addVertex(g, nName)

\* BayesianNet.addChild
addChild(g, pName, cName) == addEdge(g, pName, cName)

getParents(g, uName) == {v \in names(g) : uName \in g.neighbors[v]}

\* a variant that skips the comparison with the graph parents (line 75)
addProbabilityTableRaises_noParents(g, uName, prob, sts, deps) ==
    IF prob.shape[1] # Len(sts) THEN "ValueError"
    ELSE IF uName \notin names(g) THEN "KeyError"
    ELSE IF Len(prob.shape) # Len(deps) + 1 THEN "ValueError"
    ELSE ""

\* the exception addProbabilityTable raises, "" if none
addProbabilityTableRaises(g, uName, prob, sts, deps) ==
    IF prob.shape[1] # Len(sts) THEN "ValueError"
    ELSE IF uName \notin names(g) THEN "KeyError"
    ELSE IF Len(prob.shape) # Cardinality(getParents(g, uName)) + 1 THEN "ValueError"
    ELSE IF Len(prob.shape) # Len(deps) + 1 THEN "ValueError"
    ELSE ""

\* a variant that stores the states before it validates
addProbabilityTable_statesFirst(g, uName, prob, sts, deps) ==
    IF uName \notin names(g) THEN g
    ELSE IF addProbabilityTableRaises(g, uName, prob, sts, deps) # ""
    THEN [g EXCEPT !.states = [n \in DOMAIN g.states \cup {uName} |->
                                IF n = uName THEN sts ELSE g.states[n]]]
    ELSE LET D == tabled(g) \cup {uName}
         IN [g EXCEPT !.probability = [n \in D |-> IF n = uName THEN prob ELSE g.probability[n]],
                      !.states = [n \in D |-> IF n = uName THEN sts ELSE g.states[n]],
                      !.dependencyList = [n \in D |-> IF n = uName THEN deps
                                                      ELSE g.dependencyList[n]]]

\* the network after addProbabilityTable (unchanged if it raises)
addProbabilityTable(g, uName, prob, sts, deps) ==
    IF addProbabilityTableRaises(g, uName, prob, sts, deps) # "" THEN g
    ELSE LET D == tabled(g) \cup {uName}
         IN [g EXCEPT !.probability = [n \in D |-> IF n = uName THEN prob ELSE g.probability[n]],
                      !.states = [n \in D |-> IF n = uName THEN sts ELSE g.states[n]],
                      !.dependencyList = [n \in D |-> IF n = uName THEN deps
                                                      ELSE g.dependencyList[n]]]

----------------------------------------------------------------------------
(* BayesianNet queries.                                                    *)

\* a variant that clamps every evidence node to its first state
dimListOf_firstState(g) ==
    [k \in 1..Len(g.vertexes) |->
       IF \E i \in DOMAIN g.evidenceList : g.evidenceList[i][1] = g.vertexes[k]
       THEN 1 ELSE Slice]

\* dimList after the loop over evidenceList: a later entry overwrites an earlier one
dimListOf(g) ==
    [k \in 1..Len(g.vertexes) |->
       LET E == {i \in DOMAIN g.evidenceList : g.evidenceList[i][1] = g.vertexes[k]}
       IN IF E = {} THEN Slice
          ELSE LET last == CHOOSE i \in E : \A j \in E : j <= i
               IN IndexOf(g.states[g.vertexes[k]], g.evidenceList[last][2])]

\* lines 113-127: the contraction es is normalised, then sliced at the evidence
jointFromEinsum(g, es) ==
    IF es.err # "" THEN Raise(es.err)
    ELSE IF g.evidenceList = <<>> THEN ReturnTensor(Normalized(es.t))
    ELSE IF \E i \in DOMAIN g.evidenceList :
              IndexOf(g.states[g.evidenceList[i][1]], g.evidenceList[i][2]) = 0
    THEN Raise("ValueError")
    ELSE ReturnTensor(Normalized(npIndex(Normalized(es.t), dimListOf(g))))

jointOver(g, vertexList, ix) ==
    IF \E i \in DOMAIN vertexList : vertexList[i] \notin tabled(g)
    THEN Raise("AttributeError")
    ELSE IF \E i \in DOMAIN vertexList :
              \E k \in DOMAIN g.dependencyList[vertexList[i]] :
                 g.dependencyList[vertexList[i]][k] \notin names(g)
    THEN Raise("KeyError")
    ELSE jointFromEinsum(g,
            einsum([i \in DOMAIN vertexList |->
                      <<ix[vertexList[i]]>> \o
                      [k \in DOMAIN g.dependencyList[vertexList[i]] |->
                         ix[g.dependencyList[vertexList[i]][k]]]],
                   [i \in DOMAIN vertexList |-> ix[vertexList[i]]],
                   [i \in DOMAIN vertexList |-> g.probability[vertexList[i]]]))

jointProbability(g, vl) ==
    jointOver(g, IF vl.none \/ g.evidenceList # <<>> THEN g.vertexes ELSE vl.list,
              Eager(indexDict(g)))

\* lines 156-163: the joint is summed down to the axis of uName
marginalFromJoint(g, uName, vertexList, joint, ix) ==
    IF joint.kind = "raise" THEN joint
    ELSE ReturnOf(einsum(<<SelectSeq([i \in DOMAIN vertexList |-> ix[vertexList[i]]],
                                     LAMBDA c : \A i \in DOMAIN g.evidenceList :
                                                   ix[g.evidenceList[i][1]] # c)>>,
                         <<ix[uName]>>, <<joint.tensor>>))

marginalOver(g, uName, vertexList) ==
    IF \E i \in DOMAIN vertexList : vertexList[i] \notin names(g)
    THEN Raise("KeyError")
    ELSE marginalFromJoint(g, uName, vertexList,
                           jointProbability(g, ListArg(vertexList)), Eager(indexDict(g)))

\* a variant whose shortcut (line 143) does not look at the evidence
marginalProbability_anyEvidence(g, uName, total) ==
    IF uName \notin names(g) THEN Raise("KeyError")
    ELSE IF uName \notin tabled(g) THEN Raise("AttributeError")
    ELSE IF g.dependencyList[uName] = <<>>
    THEN ReturnTensor(g.probability[uName])
    ELSE marginalOver(g, uName,
                      IF total \/ g.evidenceList # <<>> THEN g.vertexes
                      ELSE <<uName>> \o g.dependencyList[uName])

marginalProbability(g, uName, total) ==
    IF uName \notin names(g) THEN Raise("KeyError")
    ELSE IF uName \notin tabled(g) THEN Raise("AttributeError")
    ELSE IF g.dependencyList[uName] = <<>> /\ g.evidenceList = <<>>
    THEN ReturnTensor(g.probability[uName])
    ELSE marginalOver(g, uName,
                      IF total \/ g.evidenceList # <<>> THEN g.vertexes
                      ELSE <<uName>> \o g.dependencyList[uName])

\* a variant that answers with the last entry naming uName
getInference_lastEntry(g, uName) ==
    IF \E i \in DOMAIN g.evidenceList : g.evidenceList[i][1] = uName
    THEN ReturnLabel(g.evidenceList[CHOOSE i \in DOMAIN g.evidenceList :
                        /\ g.evidenceList[i][1] = uName
                        /\ \A j \in (i + 1)..Len(g.evidenceList) :
                              g.evidenceList[j][1] # uName][2])
    ELSE marginalProbability(g, uName, TRUE)

getInference(g, uName) ==
    IF \E i \in DOMAIN g.evidenceList : g.evidenceList[i][1] = uName
    THEN ReturnLabel(g.evidenceList[CHOOSE i \in DOMAIN g.evidenceList :
                        /\ g.evidenceList[i][1] = uName
                        /\ \A j \in 1..(i - 1) : g.evidenceList[j][1] # uName][2])
    ELSE marginalProbability(g, uName, TRUE)

----------------------------------------------------------------------------
(* Evidence.                                                               *)

\* what setEvidence gives back: the loop stops at the first entry that fails
RECURSIVE setEvidenceResult(_, _)
setEvidenceResult(g, evList) ==
    IF evList = <<>> THEN ReturnNone
    ELSE LET vName == Head(evList)[1]
             vState == Head(evList)[2]
         IN IF vName \notin names(g) THEN ReturnPrinted("Invalid node specified")
            ELSE IF vName \notin tabled(g) THEN Raise("AttributeError")
            ELSE IF IndexOf(g.states[vName], vState) = 0 THEN Raise("ValueError")
            ELSE setEvidenceResult(g, Tail(evList))

\* a variant that stores the list before it validates
setEvidence_storeFirst(g, evList) == [g EXCEPT !.evidenceList = evList]

\* the network after setEvidence
setEvidence(g, evList) ==
    IF setEvidenceResult(g, evList) = ReturnNone
    THEN [g EXCEPT !.evidenceList = evList]
    ELSE g

\* a variant that drops only the last entry
unsetEvidence_dropLast(g) ==
    [g EXCEPT !.evidenceList = SubSeq(g.evidenceList, 1, Len(g.evidenceList) - 1)]

\* the network after unsetEvidence
unsetEvidence(g) == [g EXCEPT !.evidenceList = <<>>]

----------------------------------------------------------------------------
(* Inputs.  The arrays and the two networks of the test script, and small  *)
(* networks that vary the insertion order, the tables and the axis order.  *)

\* np.array( [ x1, x2, ... ] ) / den
npArray1(v, den) == [shape |-> <<Len(v)>>,
                     val |-> Eager([i \in Idx(<<Len(v)>>) |-> v[i[1]]]),
                     den |-> den]

\* np.array( [ [ ... ], [ ... ] ] ) / den
npArray2(m, den) == [shape |-> <<Len(m), Len(m[1])>>,
                     val |-> Eager([i \in Idx(<<Len(m), Len(m[1])>>) |-> m[i[1]][i[2]]]),
                     den |-> den]

\* np.array( [ [ [ ... ], ... ], ... ] ) / den
npArray3(m, den) == [shape |-> <<Len(m), Len(m[1]), Len(m[1][1])>>,
                     val |-> Eager([i \in Idx(<<Len(m), Len(m[1]), Len(m[1][1])>>) |->
                                      m[i[1]][i[2]][i[3]]]),
                     den |-> den]

TF == <<"T", "F">>

\* [ 0.5, 0.5 ]
PriorU == npArray1(<<1, 1>>, 2)

\* [ 0.25, 0.75 ]
PriorS == npArray1(<<1, 3>>, 4)

\* [ 1, 3 ]: not a distribution, the entries sum to 4
PriorW == npArray1(<<1, 3>>, 1)

\* [ [ 3/4, 1/3 ], [ 1/4, 2/3 ] ]
CptNoisy == npArray2(<<<<9, 4>>,
                       <<3, 8>>>>, 12)

\* [ [ 1, 0 ], [ 0, 1 ] ]
CptDet == npArray2(<<<<1, 0>>,
                     <<0, 1>>>>, 1)

\* [ [ 0.9, 0.2 ], [ 0.1, 0.8 ] ]
CptLeaf == npArray2(<<<<9, 2>>,
                      <<1, 8>>>>, 10)

\* [ [ [ 0.9, 0.5 ], [ 0.25, 0 ] ], [ [ 0.1, 0.5 ], [ 0.75, 1 ] ] ]
Cpt3 == npArray3(<<<<<<18, 10>>, <<5, 0>>>>,
                   <<<<2, 10>>, <<15, 20>>>>>>, 20)

\* network a of the test script
ChainNet ==
    LET g1 == addChild(addNode(EmptyNet, "Smoking"), "Smoking", "Cancer")
        g2 == addProbabilityTable(g1, "Smoking", npArray1(<<80, 15, 5>>, 100),
                 <<"None", "Light", "Heavy">>, <<>>)
    IN addProbabilityTable(g2, "Cancer",
          npArray2(<<<<96, 88, 60>>,
                     <<3, 8, 25>>,
                     <<1, 4, 15>>>>, 100),
          <<"None", "Benign", "Malignant">>, <<"Smoking">>)

\* network b of the test script
SprinklerNet ==
    LET g1 == addChild(addNode(EmptyNet, "cloudy"), "cloudy", "sprinkler")
        g2 == addChild(g1, "cloudy", "rain")
        g3 == addChild(g2, "sprinkler", "grass wet")
        g4 == addChild(g3, "rain", "grass wet")
        g5 == addProbabilityTable(g4, "cloudy", PriorU, TF, <<>>)
        g6 == addProbabilityTable(g5, "sprinkler",
                 npArray2(<<<<1, 5>>, <<9, 5>>>>, 10), TF, <<"cloudy">>)
        g7 == addProbabilityTable(g6, "rain",
                 npArray2(<<<<8, 2>>, <<2, 8>>>>, 10), TF, <<"cloudy">>)
    IN addProbabilityTable(g7, "grass wet",
          npArray3(<<<<<<99, 90>>, <<90, 0>>>>,
                     <<<<1, 10>>, <<10, 100>>>>>>, 100),
          TF, <<"sprinkler", "rain">>)

\* A -> B -> C, the edges added in either order
Chain3(rootFirst, prior, cpt) ==
    LET g1 == IF rootFirst THEN addChild(addChild(EmptyNet, "A", "B"), "B", "C")
              ELSE addChild(addChild(EmptyNet, "B", "C"), "A", "B")
        g2 == addProbabilityTable(g1, "A", prior, TF, <<>>)
        g3 == addProbabilityTable(g2, "B", cpt, TF, <<"A">>)
    IN addProbabilityTable(g3, "C", CptLeaf, TF, <<"B">>)

\* A -> C <- B, the axes of C's table in the order B, A
Collider(priorA, priorB) ==
    LET g1 == addChild(addChild(EmptyNet, "A", "C"), "B", "C")
        g2 == addProbabilityTable(g1, "A", priorA, TF, <<>>)
        g3 == addProbabilityTable(g2, "B", priorB, TF, <<>>)
    IN addProbabilityTable(g3, "C", Cpt3, TF, <<"B", "A">>)

\* A -> B, the child named first
Pair(prior, cpt) ==
    LET g1 == addChild(addNode(EmptyNet, "B"), "A", "B")
        g2 == addProbabilityTable(g1, "A", prior, TF, <<>>)
    IN addProbabilityTable(g2, "B", cpt, TF, <<"A">>)

\* the finished networks on which queries are made
QueryNets ==
    {ChainNet, SprinklerNet}
    \cup {Chain3(o, p, c) : o \in BOOLEAN, p \in {PriorU, PriorS}, c \in {CptNoisy, CptDet}}
    \cup {Collider(PriorS, PriorU), Collider(PriorU, PriorS)}
    \cup {Pair(PriorS, CptNoisy), Pair(PriorU, CptDet)}

\* finished networks with a table that is not a distribution
WeightNets == {Pair(PriorW, CptNoisy), Chain3(TRUE, PriorW, CptNoisy)}

\* the finished networks on which evidence is set and unset
InferNets ==
    {Pair(PriorS, CptNoisy), Pair(PriorU, CptDet), Chain3(FALSE, PriorS, CptNoisy)}

\* the longest evidence list tried
MaxEvidence == 2

SeqsUpTo(S, n) == UNION {[1..k -> S] : k \in 0..n}

\* the names and state labels tried while a network is built
NodeNames == {"A", "B"}

BuildTables == {PriorU, PriorS, CptNoisy}

BuildStates == {TF, <<"T">>}

BuildDeps == {<<>>, <<"A">>, <<"B">>}

\* evidence tried while a network is built: the lists over a state A may have
\* and one it never has, and lists that name a second node
BuildEvidence ==
    SeqsUpTo({<<"A", "T">>, <<"A", "X">>}, MaxEvidence)
    \cup {<<<<"B", "T">>>>, <<<<"A", "T">>, <<"B", "T">>>>, <<<<"B", "T">>, <<"A", "X">>>>}

\* the evidence entries a network accepts
ValidEntries(g) == UNION {{<<n, g.states[n][k]>> : k \in DOMAIN g.states[n]} : n \in names(g)}

\* evidence tried on a finished network: the lists of valid entries, a list with an
\* unknown name and a list with an invalid state
InferEvidence(g) ==
    SeqsUpTo(ValidEntries(g), MaxEvidence)
    \cup {<<<<"Z", "T">>>>, <<<<g.vertexes[1], "X">>>>}

----------------------------------------------------------------------------
(* The calls.  call names the last call and its node argument, ret is what *)
(* it gave back.  before is the network as it was when evidence was last   *)
(* set on a network without evidence, and the evidence set since (the test *)
(* script keeps prob from before its setEvidence), so that what the        *)
(* queries returned then can be compared with what they return now; a      *)
(* change of the network discards it.                                      *)

Call(op, uName, total) == [op |-> op, uName |-> uName, total |-> total]

NoSnapshot == [taken |-> FALSE, net |-> EmptyNet, evidence |-> <<>>]

Snapshot(g, evList) == [taken |-> TRUE, net |-> g, evidence |-> evList]

AddNode(nName) ==
    /\ call' = Call("addNode", nName, TRUE)
    /\ vertexes' = addNode(self, nName).vertexes
    /\ neighbors' = addNode(self, nName).neighbors
    /\ ret' = ReturnNone
    /\ before' = NoSnapshot
    /\ UNCHANGED <<edges, probability, states, dependencyList, evidenceList>>

AddChild(pName, cName) ==
    /\ call' = Call("addChild", cName, TRUE)
    /\ vertexes' = addChild(self, pName, cName).vertexes
    /\ neighbors' = addChild(self, pName, cName).neighbors
    /\ edges' = addChild(self, pName, cName).edges
    /\ ret' = ReturnNone
    /\ before' = NoSnapshot
    /\ UNCHANGED <<probability, states, dependencyList, evidenceList>>

AddProbabilityTable(uName, prob, sts, deps) ==
    /\ call' = Call("addProbabilityTable", uName, TRUE)
    /\ ret' = IF addProbabilityTableRaises(self, uName, prob, sts, deps) = "" THEN ReturnNone
              ELSE Raise(addProbabilityTableRaises(self, uName, prob, sts, deps))
    /\ probability' = addProbabilityTable(self, uName, prob, sts, deps).probability
    /\ states' = addProbabilityTable(self, uName, prob, sts, deps).states
    /\ dependencyList' = addProbabilityTable(self, uName, prob, sts, deps).dependencyList
    /\ before' = NoSnapshot
    /\ UNCHANGED <<vertexes, neighbors, edges, evidenceList>>

SetEvidence(evList) ==
    /\ call' = Call("setEvidence", "", TRUE)
    /\ ret' = setEvidenceResult(self, evList)
    /\ evidenceList' = setEvidence(self, evList).evidenceList
    /\ before' = IF ret' # ReturnNone THEN before
                 ELSE IF evidenceList = <<>> THEN Snapshot(self, evList)
                 ELSE IF before.taken THEN Snapshot(before.net, evList)
                 ELSE before
    /\ UNCHANGED <<vertexes, neighbors, edges, probability, states, dependencyList>>

UnsetEvidence ==
    /\ call' = Call("unsetEvidence", "", TRUE)
    /\ evidenceList' = unsetEvidence(self).evidenceList
    /\ ret' = ReturnNone
    /\ before' = before
    /\ UNCHANGED <<vertexes, neighbors, edges, probability, states, dependencyList>>

JointProbability ==
    /\ call' = Call("jointProbability", "", TRUE)
    /\ ret' = jointProbability(self, NoneArg)
    /\ UNCHANGED <<vertexes, neighbors, edges, probability, states, dependencyList,
                   evidenceList, before>>

MarginalProbability(uName, total) ==
    /\ call' = Call("marginalProbability", uName, total)
    /\ ret' = marginalProbability(self, uName, total)
    /\ UNCHANGED <<vertexes, neighbors, edges, probability, states, dependencyList,
                   evidenceList, before>>

GetInference(uName) ==
    /\ call' = Call("getInference", uName, TRUE)
    /\ ret' = getInference(self, uName)
    /\ UNCHANGED <<vertexes, neighbors, edges, probability, states, dependencyList,
                   evidenceList, before>>

----------------------------------------------------------------------------
(* Spec: a network built from nothing, with every call open at every step. *)

Init ==
    /\ vertexes = <<>>
    /\ neighbors = <<>>
    /\ edges = {}
    /\ probability = <<>>
    /\ states = <<>>
    /\ dependencyList = <<>>
    /\ evidenceList = <<>>
    /\ call = Call("__init__", "", TRUE)
    /\ ret = ReturnNone
    /\ before = NoSnapshot

Next ==
    \/ \E n \in NodeNames : AddNode(n)
    \/ \E p \in NodeNames, c \in NodeNames : p # c /\ AddChild(p, c)
    \/ \E u \in NodeNames, t \in BuildTables, s \in BuildStates, d \in BuildDeps :
          AddProbabilityTable(u, t, s, d)
    \/ \E L \in BuildEvidence : SetEvidence(L)
    \/ UnsetEvidence
    \/ JointProbability
    \/ \E u \in NodeNames, total \in BOOLEAN : MarginalProbability(u, total)
    \/ \E u \in NodeNames : GetInference(u)

Spec == Init /\ [][Next]_vars

(* SpecInfer: a finished network; evidence is set and unset and queries    *)
(* are made.                                                               *)

InitInfer ==
    \E g \in InferNets :
        /\ vertexes = g.vertexes
        /\ neighbors = g.neighbors
        /\ edges = g.edges
        /\ probability = g.probability
        /\ states = g.states
        /\ dependencyList = g.dependencyList
        /\ evidenceList = <<>>
        /\ call = Call("__init__", "", TRUE)
        /\ ret = ReturnNone
        /\ before = NoSnapshot

NextInfer ==
    \/ \E L \in InferEvidence(self) : SetEvidence(L)
    \/ UnsetEvidence
    \/ JointProbability
    \/ \E u \in names(self), total \in BOOLEAN : MarginalProbability(u, total)
    \/ \E u \in names(self) : GetInference(u)

SpecInfer == InitInfer /\ [][NextInfer]_vars

(* SpecQuery: a finished network after one setEvidence call, on which one  *)
(* query is made.  SpecQueryAny also draws networks whose tables are not   *)
(* distributions.                                                          *)

InitQueryOver(nets) ==
    \E g \in nets : \E L \in InferEvidence(g) :
        /\ vertexes = g.vertexes
        /\ neighbors = g.neighbors
        /\ edges = g.edges
        /\ probability = g.probability
        /\ states = g.states
        /\ dependencyList = g.dependencyList
        /\ evidenceList = setEvidence(g, L).evidenceList
        /\ call = Call("setEvidence", "", TRUE)
        /\ ret = setEvidenceResult(g, L)
        /\ before = IF setEvidenceResult(g, L) = ReturnNone THEN Snapshot(g, L)
                    ELSE NoSnapshot

InitQuery == InitQueryOver(QueryNets)

InitQueryAny == InitQueryOver(QueryNets \cup WeightNets)

NextQuery ==
    /\ call.op = "setEvidence"
    /\ \/ JointProbability
       \/ \E u \in names(self), total \in BOOLEAN : MarginalProbability(u, total)
       \/ \E u \in names(self) : GetInference(u)

SpecQuery == InitQuery /\ [][NextQuery]_vars

SpecQueryAny == InitQueryAny /\ [][NextQuery]_vars

----------------------------------------------------------------------------
(* Properties.                                                             *)

Queries == {"jointProbability", "marginalProbability", "getInference"}

\* every node has a table
Complete(g) == names(g) = tabled(g)

\* every dependencyList names exactly the node's graph parents, once each, and
\* every parent axis of a table has the extent of that parent's state list
AxesMatchParents(g) ==
    \A v \in tabled(g) :
        /\ {g.dependencyList[v][k] : k \in DOMAIN g.dependencyList[v]} = getParents(g, v)
        /\ Len(g.dependencyList[v]) = Cardinality(getParents(g, v))
        /\ Len(g.probability[v].shape) = Len(g.dependencyList[v]) + 1
        /\ g.probability[v].shape[1] = Len(g.states[v])
        /\ \A k \in DOMAIN g.dependencyList[v] :
              /\ g.dependencyList[v][k] \in tabled(g)
              /\ g.probability[v].shape[k + 1] = Len(g.states[g.dependencyList[v][k]])

\* every table is a conditional distribution: for each parent configuration
\* the entries over the node's own axis sum to 1
Proper(g) ==
    \A v \in tabled(g) :
        LET t == g.probability[v]
        IN \A c \in Idx(Tail(t.shape)) :
              SumOver([x \in 1..t.shape[1] |-> t.val[<<x>> \o c]], 1..t.shape[1]) = t.den

EvidenceNames(g) == {g.evidenceList[i][1] : i \in DOMAIN g.evidenceList}

DistinctEvidence(g) ==
    \A i, j \in DOMAIN g.evidenceList : i # j => g.evidenceList[i][1] # g.evidenceList[j][1]

\* the assignments of a state to every node that agree with the evidence
Worlds(g) ==
    {a \in [names(g) -> 1..SeqMax([i \in DOMAIN g.vertexes |-> Len(g.states[g.vertexes[i]])])] :
       /\ \A v \in names(g) : a[v] <= Len(g.states[v])
       /\ \A i \in DOMAIN g.evidenceList :
             g.states[g.evidenceList[i][1]][a[g.evidenceList[i][1]]] = g.evidenceList[i][2]}

RECURSIVE WorldWeight(_, _, _)
\* the product of every node's table entry in world a (numerators; the
\* denominators are the same in every world)
WorldWeight(g, a, vs) ==
    IF vs = <<>> THEN 1
    ELSE g.probability[Head(vs)].val[<<a[Head(vs)]>> \o
            [k \in DOMAIN g.dependencyList[Head(vs)] |-> a[g.dependencyList[Head(vs)][k]]]]
         * WorldWeight(g, a, Tail(vs))

\* the weight of the worlds of W in which node n is in state x, for each x
PosteriorWeights(g, n, W) ==
    [x \in 1..Len(g.states[n]) |->
       SumOver([a \in W |-> WorldWeight(g, a, g.vertexes)], {a \in W : a[n] = x})]

\* t is the distribution proportional to the weights w, of total weight > 0
IsPosterior(t, w) ==
    /\ t.shape = <<Len(w)>>
    /\ t.den # 0
    /\ SumOver(w, DOMAIN w) > 0
    /\ \A x \in DOMAIN w : t.val[<<x>>] * SumOver(w, DOMAIN w) = w[x] * t.den

\* the evidence has non-zero probability
PossibleEvidence(g) ==
    SumOver([a \in Worlds(g) |-> WorldWeight(g, a, g.vertexes)], Worlds(g)) > 0

InferenceIsPosterior ==
    (/\ call.op \in {"getInference", "marginalProbability"}
     /\ call.total \/ evidenceList # <<>>
     /\ call.uName \notin EvidenceNames(self))
    => /\ ret.kind = "tensor"
       /\ IsPosterior(ret.tensor, PosteriorWeights(self, call.uName, Worlds(self)))

\* C1 as stated: with every dependencyList naming the graph parents in axis
\* order and distinct evidence of non-zero probability, getInference(n) for n
\* outside the evidence is the exact posterior marginal of n.
C1_PosteriorAnyTables ==
    (/\ call.op \in {"getInference", "marginalProbability"}
     /\ Complete(self)
     /\ AxesMatchParents(self)
     /\ DistinctEvidence(self)
     /\ PossibleEvidence(self))
    => InferenceIsPosterior

\* C1 amended: the same, in a network whose tables are all conditional
\* distributions (each parent configuration sums to 1 over the own axis).
C1_PosteriorProperTables ==
    (/\ call.op \in {"getInference", "marginalProbability"}
     /\ Complete(self)
     /\ AxesMatchParents(self)
     /\ Proper(self)
     /\ DistinctEvidence(self)
     /\ PossibleEvidence(self))
    => InferenceIsPosterior

\* the sprinkler scenario: rain is clamped and the inference on grass wet is
\* a distribution that differs from the marginal before the evidence
C1_Witness ==
    /\ vertexes = SprinklerNet.vertexes
    /\ evidenceList = <<<<"rain", "T">>>>
    /\ call.op = "getInference"
    /\ call.uName = "grass wet"
    /\ ret.kind = "tensor"
    /\ ~SameValues(ret.tensor, marginalProbability(before.net, "grass wet", TRUE).tensor)

\* C2: in a network where every node has a table, jointProbability() either
\* raises or returns a tensor whose entries sum to 1.
C2_JointSumsToOne ==
    (call.op = "jointProbability" /\ Complete(self))
    => \/ ret.kind = "raise"
       \/ /\ ret.kind = "tensor"
          /\ ret.tensor.den # 0
          /\ npSum(ret.tensor)[1] = npSum(ret.tensor)[2]

\* C3: in a network where every node has a table, marginalProbability(n)
\* returns a 1-D distribution over n's states that sums to 1, whatever the
\* evidence and whether or not n is clamped.
C3_MarginalSumsToOne ==
    (call.op = "marginalProbability" /\ Complete(self))
    => /\ ret.kind = "tensor"
       /\ ret.tensor.shape = <<Len(states[call.uName])>>
       /\ ret.tensor.den # 0
       /\ npSum(ret.tensor)[1] = npSum(ret.tensor)[2]

\* C10: without evidence, with proper tables and dependency lists that name
\* the graph parents, marginalProbability(n, total=False) returns the same
\* distribution as marginalProbability(n, total=True).
C10_SubsetEqualsTotal ==
    (/\ call.op = "marginalProbability"
     /\ ~call.total
     /\ evidenceList = <<>>
     /\ Complete(self)
     /\ AxesMatchParents(self)
     /\ Proper(self))
    => /\ ret.kind = "tensor"
       /\ marginalProbability(self, call.uName, TRUE).kind = "tensor"
       /\ SameValues(ret.tensor, marginalProbability(self, call.uName, TRUE).tensor)

\* some node has no table
MissingSome(g) == names(g) # tabled(g)

\* C7 as stated: while evidence L is set, getInference(n) returns s for every
\* pair (n, s) of L, and marginalProbability(name, total=True) for a name
\* that is not in L.
C7_EveryPairReturned ==
    call.op = "getInference"
    => /\ \A i \in DOMAIN evidenceList :
             evidenceList[i][1] = call.uName => ret = ReturnLabel(evidenceList[i][2])
       /\ call.uName \notin EvidenceNames(self)
             => ret = marginalProbability(self, call.uName, TRUE)

\* C7 amended: getInference(n) returns the state of the first pair of L that
\* names n, and marginalProbability(name, total=True) for a name not in L.
C7_FirstPairReturned ==
    call.op = "getInference"
    => /\ \A i \in DOMAIN evidenceList :
             (/\ evidenceList[i][1] = call.uName
              /\ \A j \in 1..(i - 1) : evidenceList[j][1] # call.uName)
             => ret = ReturnLabel(evidenceList[i][2])
       /\ call.uName \notin EvidenceNames(self)
             => ret = marginalProbability(self, call.uName, TRUE)

\* the inference on a node that the evidence names twice, with two states
C7_Witness ==
    /\ call.op = "getInference"
    /\ ret.kind = "label"
    /\ \E i, j \in DOMAIN evidenceList :
          /\ i < j
          /\ evidenceList[i][1] = call.uName
          /\ evidenceList[j][1] = call.uName
          /\ evidenceList[i][2] # evidenceList[j][2]

\* every query on g gives what it gives on h
SameAnswers(g, h) ==
    /\ jointProbability(g, NoneArg) = jointProbability(h, NoneArg)
    /\ \A n \in names(h) :
          /\ marginalProbability(g, n, TRUE) = marginalProbability(h, n, TRUE)
          /\ marginalProbability(g, n, FALSE) = marginalProbability(h, n, FALSE)
          /\ getInference(g, n) = getInference(h, n)

UnsetRestores ==
    (call.op = "unsetEvidence" /\ before.taken)
    => /\ evidenceList = <<>>
       /\ SameAnswers(self, before.net)

QueryKeepsNetwork ==
    call'.op \in Queries
    => /\ UNCHANGED <<vertexes, neighbors, edges, probability, states, dependencyList,
                      evidenceList>>
       /\ (call.op \in Queries /\ call' = call) => ret' = ret

\* C8: after setEvidence(L) on a network without evidence, unsetEvidence()
\* leaves the evidence list empty and every query answers as before the
\* setEvidence; a query changes neither tables, graph nor evidence, and a
\* query repeated with nothing in between gives the same result.
C8_UnsetRestores == [](UnsetRestores) /\ [][QueryKeepsNetwork]_vars

\* unsetEvidence has just cleared evidence that setEvidence had set
C8_Witness ==
    /\ call.op = "unsetEvidence"
    /\ before.taken
    /\ before.evidence # <<>>
    /\ evidenceList = <<>>
    /\ jointProbability(setEvidence(self, before.evidence), NoneArg)
          # jointProbability(self, NoneArg)

StatesMatchTable(g, v) == Len(g.states[v]) = g.probability[v].shape[1]

DepsMatchRank(g, v) == Len(g.dependencyList[v]) = Len(g.probability[v].shape) - 1

RankMatchesParents(g, v) == Len(g.probability[v].shape) - 1 = Cardinality(getParents(g, v))

\* C4 as stated: in every reachable state every node with a table has as
\* many states as the table's first dimension, as many dependencyList
\* entries as the table's rank minus 1, and as many graph parents as the
\* table's rank minus 1.
C4_TableMatchesGraph ==
    \A v \in tabled(self) :
        /\ StatesMatchTable(self, v)
        /\ DepsMatchRank(self, v)
        /\ RankMatchesParents(self, v)

\* a step leaves no tabled node with a rank that differs from its number of
\* parents, unless it is an addChild into that node or the node was so before
ParentsBrokenOnlyByAddChild ==
    \A v \in tabled(self)' :
        \/ RankMatchesParents(self', v)
        \/ call'.op = "addChild" /\ call'.uName = v
        \/ v \in tabled(self) /\ ~RankMatchesParents(self, v)

\* C4 amended: the first two equalities hold in every reachable state; the
\* third holds when a table is attached and from then on until an addChild
\* call gives the node a new parent.
C4_TableMatchesGraphUntilAddChild ==
    /\ [](\A v \in tabled(self) : StatesMatchTable(self, v) /\ DepsMatchRank(self, v))
    /\ [][ParentsBrokenOnlyByAddChild]_vars

\* a table of rank 2 was attached to a node with one parent
C4_Witness ==
    /\ call.op = "addProbabilityTable"
    /\ ret = ReturnNone
    /\ call.uName \in tabled(self)
    /\ Len(probability[call.uName].shape) = 2
    /\ Cardinality(getParents(self, call.uName)) = 1

\* the entries of L that setEvidence does not accept
BadEntries(g, L) ==
    {i \in DOMAIN L : \/ L[i][1] \notin tabled(g)
                      \/ \A k \in DOMAIN g.states[L[i][1]] : g.states[L[i][1]][k] # L[i][2]}

FirstBad(g, L) == CHOOSE i \in BadEntries(g, L) : \A j \in BadEntries(g, L) : i <= j

\* what the claim says of setEvidence(L): an unknown name returns quietly,
\* any other entry that is not accepted fails with ValueError
SetEvidenceAsStated(L) ==
    SetEvidence(L)
    => IF BadEntries(self, L) = {}
       THEN evidenceList' = L /\ ret' = ReturnNone
       ELSE /\ evidenceList' = evidenceList
            /\ IF L[FirstBad(self, L)][1] \notin names(self)
               THEN ret'.kind = "none" /\ ret'.printed # ""
               ELSE ret' = Raise("ValueError")

\* the same, with the error of an entry that names a node without a table
SetEvidenceAsCoded(L) ==
    SetEvidence(L)
    => IF BadEntries(self, L) = {}
       THEN evidenceList' = L /\ ret' = ReturnNone
       ELSE /\ evidenceList' = evidenceList
            /\ IF L[FirstBad(self, L)][1] \notin names(self)
               THEN ret'.kind = "none" /\ ret'.printed # ""
               ELSE IF L[FirstBad(self, L)][1] \notin tabled(self)
               THEN ret' = Raise("AttributeError")
               ELSE ret' = Raise("ValueError")

\* C5 as stated: setEvidence(L) validates in list order; the first entry
\* that fails decides: an unknown name returns quietly, a state that is not
\* in the node's states fails with ValueError, and in both cases the
\* evidence list stays as it was; if no entry fails the evidence list is L.
C5_AllOrNothing ==
    [][call'.op = "setEvidence" => \A L \in BuildEvidence : SetEvidenceAsStated(L)]_vars

\* C5 amended: as stated, and an entry that names a node without a table
\* (it has no states yet) fails with AttributeError, the evidence list
\* again staying as it was.
C5_AllOrNothingThreeFailures ==
    [][call'.op = "setEvidence" => \A L \in BuildEvidence : SetEvidenceAsCoded(L)]_vars

\* setEvidence failed on its second entry and the earlier evidence is kept
C5_Witness ==
    /\ call.op = "setEvidence"
    /\ ret.kind = "raise"
    /\ evidenceList = <<<<"B", "T">>>>
    /\ "A" \in tabled(self)

AddProbabilityTableFails(g, uName, prob, sts, deps) ==
    \/ uName \notin names(g)
    \/ prob.shape[1] # Len(sts)
    \/ Len(prob.shape) - 1 # Cardinality(getParents(g, uName))
    \/ Len(prob.shape) - 1 # Len(deps)

\* what the claim says of a step: a call that fails a validation raises and
\* changes nothing, any other overwrites the node's three attributes
AddProbabilityTableOutcome(uName, prob, sts, deps) ==
    /\ UNCHANGED <<vertexes, neighbors, edges, evidenceList>>
    /\ IF AddProbabilityTableFails(self, uName, prob, sts, deps)
       THEN /\ ret'.kind = "raise"
            /\ UNCHANGED <<probability, states, dependencyList>>
       ELSE /\ ret' = ReturnNone
            /\ tabled(self)' = tabled(self) \cup {uName}
            /\ DOMAIN states' = tabled(self)'
            /\ DOMAIN dependencyList' = tabled(self)'
            /\ probability'[uName] = prob
            /\ states'[uName] = sts
            /\ dependencyList'[uName] = deps
            /\ \A n \in tabled(self) \ {uName} :
                  /\ probability'[n] = probability[n]
                  /\ states'[n] = states[n]
                  /\ dependencyList'[n] = dependencyList[n]

\* every step that is this call has that outcome
AddProbabilityTableAsStated(uName, prob, sts, deps) ==
    \/ AddProbabilityTableOutcome(uName, prob, sts, deps)
    \/ ~AddProbabilityTable(uName, prob, sts, deps)

\* C6: addProbabilityTable with a table whose first dimension differs from
\* the number of states, or whose rank minus 1 differs from the number of
\* graph parents or from the number of parent names (or that names no node
\* of the graph), raises and changes nothing; any other call overwrites the
\* node's table, states and dependencyList and changes nothing else.
C6_RejectedTableChangesNothing ==
    [][call'.op = "addProbabilityTable"
         => \A p \in BuildTables, st \in BuildStates, d \in BuildDeps :
               AddProbabilityTableAsStated(call'.uName, p, st, d)]_vars

\* a table was rejected for a node that keeps the table it had
C6_Witness ==
    /\ call.op = "addProbabilityTable"
    /\ ret.kind = "raise"
    /\ call.uName \in tabled(self)

\* C9 as stated: while some node has no table, every jointProbability,
\* marginalProbability and getInference call (on a node of the network)
\* fails with AttributeError.
C9_EveryQueryFails ==
    (/\ MissingSome(self)
     /\ call.op \in Queries
     /\ call.op = "jointProbability" \/ call.uName \in names(self))
    => ret = Raise("AttributeError")

\* the node's own table is returned as it is (line 143-144)
TakesTableShortcut(g, n) ==
    /\ n \in tabled(g)
    /\ g.dependencyList[n] = <<>>
    /\ g.evidenceList = <<>>

\* C9 amended: while some node has no table, jointProbability() fails with
\* AttributeError, and so does marginalProbability(n) / getInference(n)
\* unless n is clamped (getInference returns the label), or n has a table
\* without parents and no evidence is set (the table is returned), or
\* total=False with no evidence and n and its declared parents all have
\* tables (the distribution over that subset is returned).
C9_QueryFailsUnlessShortcut ==
    (/\ MissingSome(self)
     /\ call.op \in Queries
     /\ call.op = "jointProbability" \/ call.uName \in names(self))
    => IF call.op = "jointProbability" THEN ret = Raise("AttributeError")
       ELSE IF call.op = "getInference" /\ call.uName \in EvidenceNames(self)
       THEN ret.kind = "label"
       ELSE IF TakesTableShortcut(self, call.uName)
       THEN ret = ReturnTensor(probability[call.uName])
       ELSE IF call.uName \notin tabled(self) \/ call.total \/ evidenceList # <<>>
       THEN ret = Raise("AttributeError")
       ELSE (\A k \in DOMAIN dependencyList[call.uName] :
                dependencyList[call.uName][k] \in names(self))
            => (ret = Raise("AttributeError")
                  <=> \E k \in DOMAIN dependencyList[call.uName] :
                         dependencyList[call.uName][k] \notin tabled(self))

\* the inference on a node that has a table fails because another has none
C9_Witness ==
    /\ MissingSome(self)
    /\ call.op = "getInference"
    /\ call.uName \in tabled(self)
    /\ ret = Raise("AttributeError")

====
